---- MODULE Spec2Model ----
(***************************************************************************)
(* A model of the India vehicle-registrations dashboard: the column        *)
(* canonicalizer, the data loader, the category classifier, the growth     *)
(* calculator and KPI formatter of utils.py, and the dashboard pass of     *)
(* app.py.  Text is modelled as sequences of one-character strings, so     *)
(* that lowercasing, trimming, regex substitution and substring search     *)
(* are computed character by character, as the code computes them.         *)
(***************************************************************************)
EXTENDS Integers, Sequences, FiniteSets, TLC

VARIABLES
    cols,        \* _canonicalize_columns: the raw headers passed in
    canon_out,   \* _canonicalize_columns: the list returned (Pending before)
    raw,         \* mapper: the raw category value passed in
    group_out,   \* mapper: the vehicle group returned (Pending before)
    series,      \* compute_growth_rates: the series passed in
    growth,      \* compute_growth_rates: the value returned / kpi_delta: its argument
    delta,       \* kpi_delta: the string returned (Pending before)
    ev_only,     \* load_data: its ev_only argument
    monthly,     \* load_data: its monthly argument
    csv,         \* load_data: the table pd.read_csv gives for the file of that mode
    loaded,      \* load_data: the frame returned, or the error raised
    \* app.py, one pass of the script:
    show_ev_only,     \* the sidebar checkbox
    yearly_csv,       \* what pd.read_csv gives for data/ffinal.csv
    monthly_csv,      \* what pd.read_csv gives for data/month.csv
    pc,               \* the place the pass has reached
    df_yearly,        \* the yearly frame, as loaded and then filtered
    df_monthly,       \* the monthly frame, as loaded and then filtered
    has_maker,        \* df_yearly.attrs["has_maker"]
    year_range,       \* <<start_year, end_year>> of the slider
    cat_options,      \* the vehicle groups offered
    maker_options,    \* the makers offered
    selected,         \* [cats, makers]: what filter_controls returned
    aggs,             \* yearly_agg, monthly_agg, topline_q, topline_y
    kpis,             \* the st.metric values and deltas, by vehicle group
    maker_table,      \* the rows of the manufacturer growth table
    rendered,         \* the elements put on the page, in order
    error             \* the exception that ended the pass, if any

pureVars == <<cols, canon_out, raw, group_out, series, growth, delta>>
loadVars == <<ev_only, monthly, csv, loaded>>
appVars == <<show_ev_only, yearly_csv, monthly_csv, pc, df_yearly, df_monthly, has_maker,
             year_range, cat_options, maker_options, selected, aggs, kpis, maker_table,
             rendered, error>>
vars == <<pureVars, loadVars, appVars>>

Pending == <<"?">>

(***************************************************************************)
(* Characters and the string primitives of Python the code uses.           *)
(***************************************************************************)
LowerOf ==
    ("A" :> "a") @@ ("B" :> "b") @@ ("C" :> "c") @@ ("D" :> "d") @@ ("E" :> "e") @@
    ("F" :> "f") @@ ("G" :> "g") @@ ("H" :> "h") @@ ("I" :> "i") @@ ("J" :> "j") @@
    ("K" :> "k") @@ ("L" :> "l") @@ ("M" :> "m") @@ ("N" :> "n") @@ ("O" :> "o") @@
    ("P" :> "p") @@ ("Q" :> "q") @@ ("R" :> "r") @@ ("S" :> "s") @@ ("T" :> "t") @@
    ("U" :> "u") @@ ("V" :> "v") @@ ("W" :> "w") @@ ("X" :> "x") @@ ("Y" :> "y") @@
    ("Z" :> "z")

\* str.isspace / regex \s, over the characters the model uses
Whitespace == {" ", "\t"}

\* regex class [a-z0-9]
AlnumLower ==
    {"a","b","c","d","e","f","g","h","i","j","k","l","m","n","o","p","q","r","s","t",
     "u","v","w","x","y","z","0","1","2","3","4","5","6","7","8","9"}

SetMin(S) == CHOOSE x \in S : \A y \in S : x <= y
SetMax(S) == CHOOSE x \in S : \A y \in S : x >= y

\* str.lower()
StrLower(s) == [i \in 1..Len(s) |-> IF s[i] \in DOMAIN LowerOf THEN LowerOf[s[i]] ELSE s[i]]

\* str.strip(): leading and trailing whitespace removed
StrStrip(s) ==
    LET keep == {i \in 1..Len(s) : s[i] \notin Whitespace}
    IN  IF keep = {} THEN <<>> ELSE SubSeq(s, SetMin(keep), SetMax(keep))

\* re.sub(r"[cls]+", " ", s), or re.sub(r"[^cls]+", " ", s) when negated:
\* every maximal run of characters of the class becomes one space
ReSubRuns(s, cls, negated) ==
    LET InCls(c) == (c \in cls) # negated
        R[i \in 1..(Len(s) + 1)] ==
            IF i > Len(s) THEN <<>>
            ELSE IF InCls(s[i])
                 THEN IF i > 1 /\ InCls(s[i-1]) THEN R[i+1] ELSE <<" ">> \o R[i+1]
                 ELSE <<s[i]>> \o R[i+1]
    IN  R[1]

\* s startswith pat at offset i
MatchAt(s, pat, i) ==
    /\ i + Len(pat) - 1 <= Len(s)
    /\ \A j \in 1..Len(pat) : s[i + j - 1] = pat[j]

\* str.replace(pat, ""): left-to-right, non-overlapping
StrRemove(s, pat) ==
    LET R[i \in 1..(Len(s) + 1)] ==
            IF i > Len(s) THEN <<>>
            ELSE IF MatchAt(s, pat, i) THEN R[i + Len(pat)]
            ELSE <<s[i]>> \o R[i+1]
    IN  R[1]

\* pat in s
Contains(s, pat) == \E i \in 1..(Len(s) - Len(pat) + 1) : MatchAt(s, pat, i)

(***************************************************************************)
(* utils.py: CANON and _canonicalize_columns                               *)
(***************************************************************************)
CANON ==
    (<<"d","a","t","e">> :> <<"d","a","t","e">>) @@
    (<<"s","t","a","t","e">> :> <<"s","t","a","t","e">>) @@
    (<<"s","t","a","t","e"," ","n","a","m","e">> :> <<"s","t","a","t","e">>) @@
    (<<"s","t","a","t","e","_","n","a","m","e">> :> <<"s","t","a","t","e">>) @@
    (<<"r","t","o">> :> <<"r","t","o">>) @@
    (<<"r","t","o"," ","n","a","m","e">> :> <<"r","t","o">>) @@
    (<<"r","t","o","_","n","a","m","e">> :> <<"r","t","o">>) @@
    (<<"o","f","f","i","c","e","_","n","a","m","e">> :> <<"r","t","o">>) @@
    (<<"m","a","k","e","r">> :> <<"m","a","k","e","r">>) @@
    (<<"t","y","p","e">> :> <<"m","a","k","e","r">>) @@
    (<<"m","a","k","e">> :> <<"m","a","k","e","r">>) @@
    (<<"m","a","k","e","_","n","a","m","e">> :> <<"m","a","k","e","r">>) @@
    (<<"m","a","n","u","f","a","c","t","u","r","e","r">> :> <<"m","a","k","e","r">>) @@
    (<<"c","o","m","p","a","n","y">> :> <<"m","a","k","e","r">>) @@
    (<<"o","e","m">> :> <<"m","a","k","e","r">>) @@
    (<<"c","a","t","e","g","o","r","y">> :> <<"c","a","t","e","g","o","r","y">>) @@
    (<<"v","e","h","_","c","a","t","e","g","o","r","y">> :> <<"c","a","t","e","g","o","r","y">>) @@
    (<<"v","e","h","i","c","l","e","_","c","a","t","e","g","o","r","y">> :> <<"c","a","t","e","g","o","r","y">>) @@
    (<<"r","e","g","i","s","t","r","a","t","i","o","n","s">> :> <<"r","e","g","i","s","t","r","a","t","i","o","n","s">>) @@
    (<<"c","o","u","n","t">> :> <<"r","e","g","i","s","t","r","a","t","i","o","n","s">>) @@
    (<<"n","o","_","o","f","_","v","e","h","i","c","l","e","s">> :> <<"r","e","g","i","s","t","r","a","t","i","o","n","s">>) @@
    (<<"t","o","t","a","l","_","v","e","h","i","c","l","e","s">> :> <<"r","e","g","i","s","t","r","a","t","i","o","n","s">>)

UnitSuffix == <<"(","n","o","s",".",")">>

\* a slip the claims must detect: the header is never lowercased
CanonOne_NoLower(c) ==
    LET c1 == ReSubRuns(StrStrip(c), Whitespace \cup {"-"}, FALSE)
        c2 == StrStrip(StrRemove(c1, UnitSuffix))
    IN  IF c2 \in DOMAIN CANON THEN CANON[c2] ELSE c2

\* the body of the loop: one header cleaned and looked up
CanonOne(c) ==
    LET c0 == StrLower(StrStrip(c))
        c1 == ReSubRuns(c0, Whitespace \cup {"-"}, FALSE)
        c2 == StrStrip(StrRemove(c1, UnitSuffix))
    IN  IF c2 \in DOMAIN CANON THEN CANON[c2] ELSE c2

canonicalize_columns(cs) == [i \in 1..Len(cs) |-> CanonOne(cs[i])]

(***************************************************************************)
(* Headers handed to _canonicalize_columns: every variant of the synonym   *)
(* table in three letter cases, with and without surrounding whitespace,   *)
(* and with each separator (space or underscore) as listed or written as   *)
(* a hyphen, a space or a run of them; and some whole header rows.         *)
(***************************************************************************)
SynonymTable ==
    { [canonical |-> <<"d","a","t","e">>, variants |-> {<<"d","a","t","e">>}],
      [canonical |-> <<"s","t","a","t","e">>, variants |-> {<<"s","t","a","t","e">>, <<"s","t","a","t","e"," ","n","a","m","e">>, <<"s","t","a","t","e","_","n","a","m","e">>}],
      [canonical |-> <<"r","t","o">>,
       variants |-> {<<"r","t","o">>, <<"r","t","o"," ","n","a","m","e">>, <<"r","t","o","_","n","a","m","e">>, <<"o","f","f","i","c","e","_","n","a","m","e">>}],
      [canonical |-> <<"m","a","k","e","r">>,
       variants |-> {<<"m","a","k","e","r">>, <<"t","y","p","e">>, <<"m","a","k","e">>, <<"m","a","k","e","_","n","a","m","e">>, <<"m","a","n","u","f","a","c","t","u","r","e","r">>,
                     <<"c","o","m","p","a","n","y">>, <<"o","e","m">>}],
      [canonical |-> <<"c","a","t","e","g","o","r","y">>,
       variants |-> {<<"c","a","t","e","g","o","r","y">>, <<"v","e","h","_","c","a","t","e","g","o","r","y">>, <<"v","e","h","i","c","l","e","_","c","a","t","e","g","o","r","y">>}],
      [canonical |-> <<"r","e","g","i","s","t","r","a","t","i","o","n","s">>,
       variants |-> {<<"r","e","g","i","s","t","r","a","t","i","o","n","s">>, <<"c","o","u","n","t">>, <<"n","o","_","o","f","_","v","e","h","i","c","l","e","s">>, <<"t","o","t","a","l","_","v","e","h","i","c","l","e","s">>}] }

Variants == UNION {e.variants : e \in SynonymTable}

UpperOf == [c \in {LowerOf[u] : u \in DOMAIN LowerOf} |->
               CHOOSE u \in DOMAIN LowerOf : LowerOf[u] = c]

StrUpper(s) == [i \in 1..Len(s) |-> IF s[i] \in DOMAIN UpperOf THEN UpperOf[s[i]] ELSE s[i]]

LetterCases == {"lower", "upper", "title"}

ApplyCase(s, mode) ==
    CASE mode = "lower" -> s
      [] mode = "upper" -> StrUpper(s)
      [] mode = "title" -> <<StrUpper(s)[1]>> \o Tail(s)

Separators == {" ", "_"}

\* each separator of s written as the run sep
RECURSIVE WithSep(_, _)
WithSep(s, sep) ==
    IF s = <<>> THEN <<>>
    ELSE (IF Head(s) \in Separators THEN sep ELSE <<Head(s)>>) \o WithSep(Tail(s), sep)

SepRuns == { <<"-">>, <<" ">>, <<"-","-">>, <<" "," ">>, <<" ","-"," ">> }

Paddings == { <<<<>>, <<>>>>, <<<<" ">>, <<>>>>, <<<<>>, <<" ","\t">>>>, <<<<"\t"," ">>, <<" ">>>> }

CasesOf(e) ==
    { [hdr |-> p[1] \o ApplyCase(v, m) \o p[2], variant |-> v, canonical |-> e.canonical,
       mode |-> m, pad |-> p, varied |-> FALSE, sep |-> <<>>]
        : v \in e.variants, m \in LetterCases, p \in Paddings }
    \cup
    { [hdr |-> p[1] \o ApplyCase(WithSep(v, r), m) \o p[2], variant |-> v,
       canonical |-> e.canonical, mode |-> m, pad |-> p, varied |-> TRUE, sep |-> r]
        : v \in e.variants, m \in LetterCases, p \in Paddings, r \in SepRuns }

HeaderCases == UNION {CasesOf(e) : e \in SynonymTable}

HeaderRows ==
    { <<<<"Y","e","a","r">>, <<"T","y","p","e">>, <<"V","e","h","_","C","a","t","e","g","o","r","y">>, <<"C","o","u","n","t">>>>,
      <<<<"D","a","t","e">>, <<"T","y","p","e">>, <<"V","e","h","_","C","a","t","e","g","o","r","y">>, <<"C","o","u","n","t">>>>,
      <<<<" ","D","A","T","E"," ">>, <<"M","a","k","e","-","N","a","m","e">>, <<"V","e","h","i","c","l","e","_","C","a","t","e","g","o","r","y">>, <<"N","o","_","O","f","_","V","e","h","i","c","l","e","s"," ","(","N","o","s",".",")">>>>,
      <<<<"d","a","t","e">>, <<"C","o","u","n","t">>, <<"c","a","t","e","g","o","r","y">>, <<"r","e","g","i","s","t","r","a","t","i","o","n","s">>>>,
      <<<<"D","a","t","e">>, <<"C","o","m","p","a","n","y">>, <<"C","a","t","e","g","o","r","y">>, <<"T","o","t","a","l"," ","V","e","h","i","c","l","e","s">>>>,
      <<<<"D","a","t","e">>, <<"S","t","a","t","e"," ","N","a","m","e">>, <<"M","a","k","e","r">>, <<"R","e","g","i","s","t","r","a","t","i","o","n","s">>>> }

CanonInputs == { <<c.hdr>> : c \in HeaderCases } \cup HeaderRows

(***************************************************************************)
(* Specification of the canonicalizer alone.                               *)
(***************************************************************************)
OthersIdle(own) ==
    /\ "canon" \in own \/ (cols = <<>> /\ canon_out = Pending)
    /\ "group" \in own \/ (raw = [t |-> "null", n |-> 0, s |-> <<>>] /\ group_out = Pending)
    /\ "growth" \in own \/ (series = <<<<-1, [t |-> "null", n |-> 0, s |-> <<>>]>>>>
                             /\ growth = [k |-> "unset", num |-> 0, den |-> 1]
                             /\ delta = Pending)
    /\ "load" \in own \/ (ev_only = FALSE /\ monthly = FALSE
                           /\ csv = [columns |-> <<>>, rows |-> <<>>]
                           /\ loaded = [status |-> "idle"])
    /\ "app" \in own \/ (/\ show_ev_only = FALSE
                          /\ yearly_csv = [columns |-> <<>>, rows |-> <<>>]
                          /\ monthly_csv = [columns |-> <<>>, rows |-> <<>>]
                          /\ pc = "idle"
                          /\ df_yearly = [columns |-> <<>>, rows |-> <<>>]
                          /\ df_monthly = [columns |-> <<>>, rows |-> <<>>]
                          /\ has_maker = FALSE
                          /\ year_range = <<0, 0>>
                          /\ cat_options = <<>>
                          /\ maker_options = <<>>
                          /\ selected = [cats |-> {}, makers |-> {}]
                          /\ aggs = <<>>
                          /\ kpis = <<>>
                          /\ maker_table = {}
                          /\ rendered = <<>>
                          /\ error = [kind |-> "none", orig |-> <<>>, canonical |-> <<>>])

InitCanon ==
    /\ cols \in CanonInputs
    /\ canon_out = Pending
    /\ OthersIdle({"canon"})

CanonicalizeColumns ==
    /\ cols # <<>>
    /\ canon_out = Pending
    /\ canon_out' = canonicalize_columns(cols)
    /\ UNCHANGED <<cols, raw, group_out, series, growth, delta, loadVars, appVars>>

NextCanon == CanonicalizeColumns

SpecCanon == InitCanon /\ [][NextCanon]_vars

\* the cases that produce the header row h
TheCases(h) == {c \in HeaderCases : <<c.hdr>> = h}

\* C2 as stated: every listed variant maps to its documented canonical name whatever
\* the letter case, the surrounding whitespace and the way its separators are written
\* (as listed, or as a hyphen, a space or a run of them).
C2_AsStated ==
    canon_out # Pending =>
        \A c \in TheCases(cols) : canon_out = <<c.canonical>>

\* C2 amended: letter case and surrounding whitespace never matter; a separator
\* written as a hyphen, a space or a run of them is read as ONE SPACE, so the variant
\* maps to its canonical name exactly when it is written as listed or its
\* single-space form is itself a listed variant (state name, rto name, and through
\* them state_name, rto_name); every other variant written that way (office_name,
\* make_name, veh_category, vehicle_category, no_of_vehicles, total_vehicles) passes
\* through as its cleaned single-space form, which is no canonical name.
C2_Canonicalize ==
    canon_out # Pending =>
        \A c \in TheCases(cols) :
            IF ~c.varied \/ WithSep(c.variant, <<" ">>) \in Variants
            THEN canon_out = <<c.canonical>>
            ELSE /\ canon_out = <<WithSep(c.variant, <<" ">>)>>
                 /\ canon_out[1] \notin {e.canonical : e \in SynonymTable}

\* an upper-case, padded "RTO--NAME"-like header was canonicalized to its name
C2_Witness ==
    /\ canon_out # Pending
    /\ \E c \in TheCases(cols) :
          /\ c.varied /\ c.mode = "upper" /\ c.pad[1] # <<>> /\ c.sep = <<"-","-">>
          /\ \E i \in 1..Len(c.variant) : c.variant[i] \in Separators
          /\ canon_out = <<c.canonical>>

(***************************************************************************)
(* utils.py: prepare_category_group and the mapper it returns.  A value of *)
(* a table (a cell) is a record: t is its type ("str", "num", "null" for   *)
(* NaN/None, "date" and "nat" for timestamps), n its number, s its text.   *)
(***************************************************************************)
Str(x) == [t |-> "str", n |-> 0, s |-> x]
Num(x) == [t |-> "num", n |-> x, s |-> <<>>]
Null == [t |-> "null", n |-> 0, s |-> <<>>]

\* norm(s) of prepare_category_group
norm(x) ==
    LET s0 == StrStrip(StrLower(x))
        s1 == ReSubRuns(s0, AlnumLower, TRUE)
        s2 == ReSubRuns(s1, Whitespace, FALSE)
    IN  StrStrip(s2)

Keywords2W ==
    { <<"t","w","o"," ","w","h","e","e","l","e","r">>,
      <<"t","w","o","w","h","e","e","l","e","r">>,
      <<"2","w">>,
      <<"m","o","t","o","r"," ","c","y","c","l","e">>,
      <<"m","o","t","o","r","c","y","c","l","e">>,
      <<"m"," ","c","y","c","l","e">>,
      <<"m","c","y","c","l","e">>,
      <<"s","c","o","o","t","e","r">>,
      <<"s","c","t","r">>,
      <<"m","o","p","e","d">>,
      <<"b","i","k","e">>,
      <<"l","1">>,
      <<"l","2">> }

Keywords3W ==
    { <<"t","h","r","e","e"," ","w","h","e","e","l","e","r">>,
      <<"t","h","r","e","e","w","h","e","e","l","e","r">>,
      <<"3","w">>,
      <<"a","u","t","o"," ","r","i","c","k","s","h","a","w">>,
      <<"a","u","t","o","r","i","c","k","s","h","a","w">>,
      <<"r","i","c","k","s","h","a","w">>,
      <<"e"," ","r","i","c","k","s","h","a","w">>,
      <<"e","r","i","c","k","s","h","a","w">>,
      <<"l","5">>,
      <<"e"," ","r","i","c","k">> }

Keywords4W ==
    { <<"f","o","u","r"," ","w","h","e","e","l","e","r">>,
      <<"f","o","u","r","w","h","e","e","l","e","r">>,
      <<"4","w">>,
      <<"l","m","v">>,
      <<"c","a","r">>,
      <<"m","o","t","o","r"," ","c","a","r">>,
      <<"p","a","s","s","e","n","g","e","r"," ","c","a","r">>,
      <<"j","e","e","p">>,
      <<"v","a","n">>,
      <<"s","u","v">>,
      <<"q","u","a","d","r","i","c","y","c","l","e">>,
      <<"q","u","t","e">>,
      <<"l","g","v">>,
      <<"l","c","v">>,
      <<"m","c","v">>,
      <<"h","c","v">>,
      <<"h","g","v">>,
      <<"g","o","o","d","s">>,
      <<"g","o","o","d","s"," ","c","a","r","r","i","e","r">>,
      <<"t","r","u","c","k">>,
      <<"b","u","s">>,
      <<"o","m","n","i"," ","b","u","s">>,
      <<"o","m","n","i","b","u","s">>,
      <<"t","a","x","i">>,
      <<"c","a","b">>,
      <<"p","i","c","k","u","p">>,
      <<"t","r","a","c","t","o","r">>,
      <<"t","e","m","p","o">>,
      <<"l","o","r","r","y">> }

\* any(k in r for k in keywords)
AnyIn(r, keywords) == \E k \in keywords : Contains(r, k)

\* a slip the claims must detect: the 3W list is tried before the 2W list
mapper_3WFirst(v) ==
    IF v.t # "str" \/ StrStrip(v.s) = <<>> THEN <<"O","t","h","e","r">>
    ELSE LET r == norm(v.s)
         IN  IF AnyIn(r, Keywords3W) THEN <<"3","W">>
             ELSE IF AnyIn(r, Keywords2W) THEN <<"2","W">>
             ELSE IF AnyIn(r, Keywords4W) THEN <<"4","W">>
             ELSE <<"O","t","h","e","r">>

mapper(v) ==
    IF v.t # "str" \/ StrStrip(v.s) = <<>> THEN <<"O","t","h","e","r">>
    ELSE LET r == norm(v.s)
         IN  IF AnyIn(r, Keywords2W) THEN <<"2","W">>
             ELSE IF AnyIn(r, Keywords3W) THEN <<"3","W">>
             ELSE IF AnyIn(r, Keywords4W) THEN <<"4","W">>
             ELSE <<"O","t","h","e","r">>

(***************************************************************************)
(* Category values handed to the mapper: null, a number, and every text    *)
(* made of at most MaxPieces of the pieces below.                          *)
(***************************************************************************)
MaxPieces == 3

Pieces ==
    { <<"M","o","t","o","r">>, <<"C","y","c","l","e">>, <<"C","a","r">>, <<"R","i","c","k","s","h","a","w">>, <<"E">>, <<" ">>, <<"-">>, <<"B","i","k","e">> }

RECURSIVE TextsOf(_)
TextsOf(n) ==
    IF n = 0 THEN {<<>>}
    ELSE LET shorter == TextsOf(n - 1)
         IN  shorter \cup {t \o p : t \in shorter, p \in Pieces}

RawInputs == {Null, Num(5)} \cup {Str(t) : t \in TextsOf(MaxPieces)}

InitClassify ==
    /\ raw \in RawInputs
    /\ group_out = Pending
    /\ OthersIdle({"group"})

Classify ==
    /\ group_out = Pending
    /\ group_out' = mapper(raw)
    /\ UNCHANGED <<cols, canon_out, raw, series, growth, delta, loadVars, appVars>>

NextClassify == Classify

SpecClassify == InitClassify /\ [][NextClassify]_vars

\* the normalization as the specification words it: lowercase, each run of
\* non-alphanumeric characters replaced by one space, trimmed
NormalizedText(x) == StrStrip(ReSubRuns(StrLower(x), AlnumLower, TRUE))

Buckets == <<[name |-> <<"2","W">>, keywords |-> Keywords2W],
             [name |-> <<"3","W">>, keywords |-> Keywords3W],
             [name |-> <<"4","W">>, keywords |-> Keywords4W]>>

\* the buckets, by position in the priority order, that have a fragment in text x
Matching(x) ==
    LET text == NormalizedText(x)
    IN  {i \in 1..3 : \E k \in Buckets[i].keywords : Contains(text, k)}

ClassifyExamples ==
    { <<Str(<<"M","o","t","o","r"," ","C","y","c","l","e">>), <<"2","W">>>>, <<Str(<<"M","o","t","o","r","C","y","c","l","e">>), <<"2","W">>>>,
      <<Str(<<"E","-","R","i","c","k","s","h","a","w">>), <<"3","W">>>>, <<Str(<<"R","i","c","k","s","h","a","w">>), <<"3","W">>>>,
      <<Str(<<"M","o","t","o","r","-","C","a","r">>), <<"4","W">>>>, <<Str(<<"C","a","r">>), <<"4","W">>>>,
      <<Str(<<"C","y","c","l","e","R","i","c","k","s","h","a","w","C","a","r">>), <<"3","W">>>>, <<Str(<<"B","i","k","e","R","i","c","k","s","h","a","w","C","a","r">>), <<"2","W">>>>,
      <<Str(<<"R","i","c","k","s","h","a","w"," ","C","a","r">>), <<"3","W">>>>, <<Str(<<"M","o","t","o","r","C","y","c","l","e","C","a","r">>), <<"2","W">>>>,
      <<Str(<<"C","y","c","l","e">>), <<"O","t","h","e","r">>>>, <<Str(<<"M","o","t","o","r","-","E">>), <<"O","t","h","e","r">>>>, <<Str(<<" ","-"," ">>), <<"O","t","h","e","r">>>>,
      <<Str(<<>>), <<"O","t","h","e","r">>>>, <<Null, <<"O","t","h","e","r">>>>, <<Num(5), <<"O","t","h","e","r">>>> }

\* C3: the classifier returns one of 2W, 3W, 4W, Other: Other for a null, non-string
\* or empty input; otherwise the first bucket, in the order 2W, 3W, 4W, that has a
\* fragment contained in the normalized text, and Other when none has.
C3_Classifier ==
    group_out # Pending =>
        /\ group_out \in {<<"2","W">>, <<"3","W">>, <<"4","W">>, <<"O","t","h","e","r">>}
        /\ (raw.t # "str" \/ raw.s = <<>>) => group_out = <<"O","t","h","e","r">>
        /\ raw.t = "str" =>
               LET hit == Matching(raw.s)
               IN  group_out = IF hit = {} THEN <<"O","t","h","e","r">> ELSE Buckets[SetMin(hit)].name
        /\ \A ex \in ClassifyExamples : raw = ex[1] => group_out = ex[2]

\* a text with fragments of the 2W, 3W and 4W lists at once was classified
C3_Witness ==
    /\ raw.t = "str"
    /\ group_out = <<"2","W">>
    /\ Matching(raw.s) = {1, 2, 3}

(***************************************************************************)
(* utils.py: compute_growth_rates and kpi_delta.  A series is a sequence   *)
(* of <<period, value>> pairs (index label, cell); a float is a record: k  *)
(* is "None", "nan", "inf" or "num", and a "num" is the fraction num/den,  *)
(* so that the division is exact and the rounding of kpi_delta is a step   *)
(* of its own.                                                             *)
(***************************************************************************)
None == [k |-> "None", num |-> 0, den |-> 1]
NaN == [k |-> "nan", num |-> 0, den |-> 1]
Inf(sign) == [k |-> "inf", num |-> sign, den |-> 1]
Frac(a, b) == [k |-> "num", num |-> a, den |-> b]
Unset == [k |-> "unset", num |-> 0, den |-> 1]
\* the argument None, and the mark of compute_growth_rates not having been called
NoSeries == <<<<0, Null>>>>
NotCalled == <<<<-1, Null>>>>

Range(f) == {f[i] : i \in DOMAIN f}

\* Series.sort_index(): ascending by index label (labels are distinct)
sort_index(sr) ==
    [i \in 1..Len(sr) |->
        CHOOSE e \in Range(sr) : Cardinality({f \in Range(sr) : f[1] < e[1]}) = i - 1]

\* Series.dropna()
IsValue(e) == e[2].t # "null"
dropna(sr) == SelectSeq(sr, IsValue)

\* a slip the claims must detect: the nulls are not dropped before the last two
\* points are taken (a null reads as 0)
compute_growth_rates_KeepNa(sr) ==
    IF sr = NoSeries \/ Len(sr) < 2 THEN None
    ELSE LET s == sort_index(sr)
             prev == s[Len(s) - 1][2].n
             curr == s[Len(s)][2].n
         IN  IF prev = 0 THEN None ELSE Frac(curr - prev, prev)

compute_growth_rates(sr) ==
    IF sr = NoSeries \/ Len(sr) < 2 THEN None
    ELSE LET s == dropna(sort_index(sr))
         IN  IF Len(s) < 2 THEN None
             ELSE LET prev == s[Len(s) - 1][2].n
                      curr == s[Len(s)][2].n
                  IN  IF prev = 0 THEN None ELSE Frac(curr - prev, prev)

DigitChars == <<"0", "1", "2", "3", "4", "5", "6", "7", "8", "9">>

\* str(n) of a natural number
RECURSIVE Digits(_)
Digits(n) == IF n < 10 THEN <<DigitChars[n + 1]>> ELSE Digits(n \div 10) \o <<DigitChars[(n % 10) + 1]>>

Abs(x) == IF x < 0 THEN -x ELSE x

\* round(growth*100, 1), in tenths: the nearest tenth; a value exactly halfway
\* between two tenths goes to either, as the binary value of the float decides
RoundedTenths(g) ==
    LET scaled == 1000 * g.num
        q == scaled \div g.den
        r == scaled % g.den
    IN  IF 2 * r < g.den THEN {q}
        ELSE IF 2 * r > g.den THEN {q + 1}
        ELSE {q, q + 1}

\* the text of a float rounded to one decimal; a negative value that rounds to zero
\* is the float -0.0, printed "-0.0"
FloatText(tenths, negative) ==
    (IF negative THEN <<"-">> ELSE <<>>)
        \o Digits(Abs(tenths) \div 10) \o <<".">> \o Digits(Abs(tenths) % 10)

\* a slip the claims must detect: the "+" is given to positive values only
kpi_delta_PlusPositive(g) ==
    IF g.k \in {"None", "inf", "nan"} THEN { <<"n","/","a">> }
    ELSE { (IF g.num > 0 THEN <<"+">> ELSE <<>>) \o FloatText(t, g.num < 0) \o <<"%">>
              : t \in RoundedTenths(g) }

\* the strings kpi_delta may return for the growth g
kpi_delta(g) ==
    IF g.k \in {"None", "inf", "nan"} THEN { <<"n","/","a">> }
    ELSE { (IF g.num >= 0 THEN <<"+">> ELSE <<>>) \o FloatText(t, g.num < 0) \o <<"%">>
              : t \in RoundedTenths(g) }

(***************************************************************************)
(* Series handed to compute_growth_rates: None, and every series of at     *)
(* most MaxLen points, in any order of their periods, of the values below  *)
(* and null.  Growth values handed to kpi_delta directly: None, NaN, the   *)
(* infinities and the fractions n/1000 and n/2000 up to MaxMilli.          *)
(***************************************************************************)
MaxLen == 3
MaxMilli == 45

SeriesValues == {Null, Num(0), Num(50), Num(100), Num(150)}

Orderings(n) == {p \in [1..n -> 1..n] : \A i, j \in 1..n : p[i] = p[j] => i = j}

SeriesOfLen(n) ==
    { [i \in 1..n |-> <<p[i], v[i]>>] : p \in Orderings(n), v \in [1..n -> SeriesValues] }

SeriesInputs == {NoSeries} \cup UNION {SeriesOfLen(n) : n \in 0..MaxLen}

GrowthInputs ==
    {None, NaN, Inf(1), Inf(-1)}
        \cup {Frac(n, d) : n \in (-MaxMilli)..MaxMilli, d \in {1000, 2000}}

InitGrowth ==
    /\ \/ series \in SeriesInputs /\ growth = Unset
       \/ series = NotCalled /\ growth \in GrowthInputs
    /\ delta = Pending
    /\ OthersIdle({"growth"})

ComputeGrowthRates ==
    /\ growth = Unset
    /\ growth' = compute_growth_rates(series)
    /\ UNCHANGED <<cols, canon_out, raw, group_out, series, delta, loadVars, appVars>>

KpiDelta ==
    /\ growth # Unset
    /\ delta = Pending
    /\ delta' \in kpi_delta(growth)
    /\ UNCHANGED <<cols, canon_out, raw, group_out, series, growth, loadVars, appVars>>

NextGrowth == ComputeGrowthRates \/ KpiDelta

SpecGrowth == InitGrowth /\ [][NextGrowth]_vars

\* the non-null points of a series, and the one of the latest period among a set
Points(sr) == IF sr = NoSeries THEN {} ELSE {e \in Range(sr) : e[2].t = "num"}
Latest(ps) == CHOOSE e \in ps : \A f \in ps : f[1] <= e[1]

Ascending(sr) == \A i, j \in 1..Len(sr) : i < j => sr[i][1] < sr[j][1]
ValuesOf(sr) == [i \in 1..Len(sr) |-> sr[i][2]]

\* C4: compute_growth_rates returns None when the series has fewer than two non-null
\* points or when the second-to-last non-null value is zero, and otherwise
\* (latest - previous) / previous over the last two non-null points; [100,150] gives
\* 0.5, [100,100] gives 0.0, [0,50] gives None, fewer than 2 points give None.
C4_Growth ==
    (growth # Unset /\ series # NotCalled) =>
        LET ps == Points(series)
        IN  /\ Cardinality(ps) < 2 => growth = None
            /\ Cardinality(ps) >= 2 =>
                  LET latest == Latest(ps)
                      previous == Latest(ps \ {latest})
                  IN  IF previous[2].n = 0 THEN growth = None
                      ELSE /\ growth.k = "num"
                           /\ growth.den # 0
                           /\ growth.num * previous[2].n
                                 = (latest[2].n - previous[2].n) * growth.den
            /\ (series # NoSeries /\ Ascending(series)) =>
                  /\ ValuesOf(series) = <<Num(100), Num(150)>> =>
                        growth.k = "num" /\ 2 * growth.num = growth.den
                  /\ ValuesOf(series) = <<Num(100), Num(100)>> =>
                        growth.k = "num" /\ growth.num = 0
                  /\ ValuesOf(series) = <<Num(0), Num(50)>> => growth = None
                  /\ Len(series) < 2 => growth = None

\* an ascending series with a null between its last two values gave a growth figure
C4_Witness ==
    /\ series # NoSeries /\ Len(series) = 3 /\ Ascending(series)
    /\ ValuesOf(series) = <<Num(100), Null, Num(150)>>
    /\ growth = Frac(50, 100)

IsDigit(c) == \E d \in 1..10 : DigitChars[d] = c
DigitValue(c) == (CHOOSE d \in 1..10 : DigitChars[d] = c) - 1

RECURSIVE ParseNat(_)
ParseNat(ds) ==
    IF ds = <<>> THEN 0
    ELSE 10 * ParseNat(SubSeq(ds, 1, Len(ds) - 1)) + DigitValue(ds[Len(ds)])

\* C5: kpi_delta renders None, an infinite and a NaN growth as "n/a"; every other
\* growth g as g*100 with exactly one decimal place followed by "%", led by "+" when
\* g is non-negative and by "-" when g is negative (0.5 -> "+50.0%", 0.0 -> "+0.0%",
\* -0.04 -> "-4.0%").
C5_KpiDelta ==
    delta # Pending =>
        IF growth.k \in {"None", "nan", "inf"} THEN delta = <<"n","/","a">>
        ELSE LET n == Len(delta)
             IN  /\ n >= 5
                 /\ delta[1] = (IF growth.num >= 0 THEN "+" ELSE "-")
                 /\ \A i \in 2..(n - 3) : IsDigit(delta[i])
                 /\ delta[n - 2] = "."
                 /\ IsDigit(delta[n - 1])
                 /\ delta[n] = "%"
                 /\ LET shown == 10 * ParseNat(SubSeq(delta, 2, n - 3)) + DigitValue(delta[n - 1])
                    IN  2 * Abs(shown * growth.den - 1000 * Abs(growth.num)) <= growth.den
                 /\ growth = Frac(50, 100) => delta = <<"+","5","0",".","0","%">>
                 /\ growth.num = 0 => delta = <<"+","0",".","0","%">>
                 /\ growth = Frac(-40, 1000) => delta = <<"-","4",".","0","%">>

\* a negative growth computed from a series was rendered with its "-" and one decimal
C5_Witness ==
    /\ series # NotCalled
    /\ growth = Frac(-50, 150)
    /\ delta = <<"-","3","3",".","3","%">>

(***************************************************************************)
(* utils.py: load_data.  A table is a record of its column names and its   *)
(* rows, each row a sequence of cells in the order of the columns.  A      *)
(* timestamp cell holds year*100 + month in n (the day is always 1).       *)
(***************************************************************************)
Date(y, m) == [t |-> "date", n |-> y * 100 + m, s |-> <<>>]
NaT == [t |-> "nat", n |-> 0, s |-> <<>>]

AllDigits(x) == x # <<>> /\ \A i \in 1..Len(x) : IsDigit(x[i])

\* str(cell), as Series.astype(str) gives it
AsStr(c) ==
    CASE c.t = "str" -> c.s
      [] c.t = "num" -> Digits(c.n)
      [] OTHER -> <<"n","a","n">>

\* pd.to_datetime(column, format='%Y', errors="coerce"), one cell
ToDatetimeYear(c) ==
    IF c.t \in {"num", "str"} /\ Len(AsStr(c)) = 4 /\ AllDigits(AsStr(c))
    THEN Date(ParseNat(AsStr(c)), 1)
    ELSE NaT

\* pd.to_numeric(column, errors="coerce").fillna(0), one cell
ToNumericFill0(c) ==
    CASE c.t = "num" -> c
      [] c.t = "str" /\ AllDigits(StrStrip(c.s)) -> Num(ParseNat(StrStrip(c.s)))
      [] OTHER -> Num(0)

MonthAbbr ==
    (<<"j","a","n">> :> 1) @@ (<<"f","e","b">> :> 2) @@ (<<"m","a","r">> :> 3) @@ (<<"a","p","r">> :> 4) @@
    (<<"m","a","y">> :> 5) @@ (<<"j","u","n">> :> 6) @@ (<<"j","u","l">> :> 7) @@ (<<"a","u","g">> :> 8) @@
    (<<"s","e","p">> :> 9) @@ (<<"o","c","t">> :> 10) @@ (<<"n","o","v">> :> 11) @@ (<<"d","e","c">> :> 12)

\* whether the text matches the format "%Y-%b", and the timestamp it gives
MatchesYb(x) ==
    /\ Len(x) > 5
    /\ AllDigits(SubSeq(x, 1, 4))
    /\ x[5] = "-"
    /\ StrLower(SubSeq(x, 6, Len(x))) \in DOMAIN MonthAbbr
ParseYb(x) == Date(ParseNat(SubSeq(x, 1, 4)), MonthAbbr[StrLower(SubSeq(x, 6, Len(x)))])

\* the k-th smallest member of a set of numbers, and a sequence cut to a set of positions
Nth(S, k) == CHOOSE x \in S : Cardinality({y \in S : y < x}) = k - 1
Pick(sq, keep) == [k \in 1..Cardinality(keep) |-> sq[Nth(keep, k)]]

ColIdx(columns, name) == CHOOSE i \in 1..Len(columns) : columns[i] = name
HasCol(columns, name) == \E i \in 1..Len(columns) : columns[i] = name

\* str.contains("ELECTRIC|EV", case=False, na=False)
IsEV(x) == Contains(StrLower(x), <<"e","l","e","c","t","r","i","c">>) \/ Contains(StrLower(x), <<"e","v">>)

RequiredMin == { <<"d","a","t","e">>, <<"c","a","t","e","g","o","r","y">>, <<"r","e","g","i","s","t","r","a","t","i","o","n","s">> }
StripCols == { <<"s","t","a","t","e">>, <<"r","t","o">>, <<"m","a","k","e","r">>, <<"c","a","t","e","g","o","r","y">> }

Frame(columns, rows, maker_found) ==
    [status |-> "ok", columns |-> columns, rows |-> rows, has_maker |-> maker_found,
     orig |-> <<>>, canonical |-> <<>>]
\* the ValueError of load_data: its message spells out both header lists
SchemaError(orig_cols, canonical) ==
    [status |-> "ValueError", columns |-> <<>>, rows |-> <<>>, has_maker |-> FALSE,
     orig |-> orig_cols, canonical |-> canonical]
\* the ValueError pd.to_datetime raises for a text that does not match the format
ParseError ==
    [status |-> "ParseError", columns |-> <<>>, rows |-> <<>>, has_maker |-> FALSE,
     orig |-> <<>>, canonical |-> <<>>]

\* the yearly branch without its required-columns check: the table is returned as read
LoadYearly_Unchecked(file, ev) ==
    LET canon == canonicalize_columns(file.columns)
        first == {i \in 1..Len(canon) : \A j \in 1..(i - 1) : canon[j] # canon[i]}
        columns == Pick(canon, first)
    IN  Frame(columns, [i \in 1..Len(file.rows) |-> Pick(file.rows[i], first)],
              HasCol(columns, <<"m","a","k","e","r">>))

\* the yearly branch of load_data
LoadYearly(file, ev) ==
    LET canon == canonicalize_columns(file.columns)
        first == {i \in 1..Len(canon) : \A j \in 1..(i - 1) : canon[j] # canon[i]}
        columns == Pick(canon, first)
    IN  IF ~(RequiredMin \subseteq Range(columns))
        THEN SchemaError(file.columns, columns)
        ELSE
        LET iDate == ColIdx(columns, <<"d","a","t","e">>)
            iCat == ColIdx(columns, <<"c","a","t","e","g","o","r","y">>)
            iReg == ColIdx(columns, <<"r","e","g","i","s","t","r","a","t","i","o","n","s">>)
            Coerce(row) ==
                [k \in 1..Len(columns) |->
                    IF k = iDate THEN ToDatetimeYear(row[k])
                    ELSE IF k = iReg THEN ToNumericFill0(row[k])
                    ELSE row[k]]
            coerced == [i \in 1..Len(file.rows) |-> Coerce(Pick(file.rows[i], first))]
            Complete(row) == row[iDate].t # "nat" /\ row[iCat].t # "null"
            kept == SelectSeq(coerced, Complete)
            Trim(row) ==
                [k \in 1..Len(columns) |->
                    IF columns[k] \in StripCols THEN Str(StrStrip(AsStr(row[k]))) ELSE row[k]]
            trimmed == [i \in 1..Len(kept) |-> Trim(kept[i])]
            Electric(row) == IsEV(row[iCat].s)
        IN  Frame(columns, IF ev THEN SelectSeq(trimmed, Electric) ELSE trimmed,
                  HasCol(columns, <<"m","a","k","e","r">>))

LongColumns == << <<"d","a","t","e">>, <<"c","a","t","e","g","o","r","y">>, <<"r","e","g","i","s","t","r","a","t","i","o","n","s">>, <<"m","a","k","e","r">> >>

\* a slip the claims must detect: Year and Month are not dropped before the melt
LoadMonthly_KeepYearMonth(file, ev) ==
    LET iYear == ColIdx(file.columns, <<"Y","e","a","r">>)
        iMonth == ColIdx(file.columns, <<"M","o","n","t","h">>)
        Text(row) == AsStr(row[iYear]) \o <<"-">> \o row[iMonth].s
        DateOf(row) == IF row[iMonth].t = "null" THEN NaT ELSE ParseYb(Text(row))
        n == Len(file.rows)
        Long(k) ==
            LET c == ((k - 1) \div n) + 1
                row == file.rows[((k - 1) % n) + 1]
            IN  << DateOf(row), Str(file.columns[c]), ToNumericFill0(row[c]), Null >>
    IN  IF \E i \in 1..n : file.rows[i][iMonth].t # "null" /\ ~MatchesYb(Text(file.rows[i]))
        THEN ParseError
        ELSE Frame(LongColumns, [k \in 1..(Len(file.columns) * n) |-> Long(k)], FALSE)

\* the monthly branch of load_data (ev_only is not read in it)
LoadMonthly(file, ev) ==
    LET iYear == ColIdx(file.columns, <<"Y","e","a","r">>)
        iMonth == ColIdx(file.columns, <<"M","o","n","t","h">>)
        Text(row) == AsStr(row[iYear]) \o <<"-">> \o row[iMonth].s
        DateOf(row) == IF row[iMonth].t = "null" THEN NaT ELSE ParseYb(Text(row))
        value == {i \in 1..Len(file.columns) : i \notin {iYear, iMonth}}
        n == Len(file.rows)
        \* melt: the value columns in their order, each over the rows in their order
        Long(k) ==
            LET c == Nth(value, ((k - 1) \div n) + 1)
                row == file.rows[((k - 1) % n) + 1]
            IN  << DateOf(row), Str(file.columns[c]), ToNumericFill0(row[c]), Null >>
    IN  IF \E i \in 1..n : file.rows[i][iMonth].t # "null" /\ ~MatchesYb(Text(file.rows[i]))
        THEN ParseError
        ELSE Frame(LongColumns, [k \in 1..(Cardinality(value) * n) |-> Long(k)], FALSE)

load_data(file, ev, mon) == IF mon THEN LoadMonthly(file, ev) ELSE LoadYearly(file, ev)

(***************************************************************************)
(* Files handed to load_data: yearly files of four columns under each of   *)
(* the header rows above, and monthly files of Year, Month and two         *)
(* category columns, of at most MaxRows of the rows below.                 *)
(***************************************************************************)
MaxRows == 2

YearlyRows ==
    { << Num(2022), Str(<<"H","e","r","o">>), Str(<<"M","o","t","o","r"," ","C","y","c","l","e">>), Num(1000) >>,
      << Num(2021), Str(<<" ","T","a","t","a"," ">>), Str(<<"E","l","e","c","t","r","i","c"," ","C","a","r">>), Num(5) >>,
      << Str(<<"n",".","d",".">>), Str(<<"H","e","r","o">>), Str(<<"L","M","V","-","E","V">>), Num(7) >>,
      << Num(2022), Null, Null, Num(30) >>,
      << Num(2022), Str(<<"T","a","t","a">>), Str(<<"B","u","s">>), Str(<<"x">>) >>,
      << Null, Str(<<"H","e","r","o">>), Str(<<"B","u","s">>), Num(9) >>,
      << Str(<<"2","0","2","1">>), Str(<<"H","e","r","o">>), Str(<<" ","E"," ","R","i","c","k","s","h","a","w">>), Null >> }

MonthlyHeaders ==
    { << <<"Y","e","a","r">>, <<"M","o","n","t","h">>, <<"2","W">>, <<"4","W">> >>,
      << <<"Y","e","a","r">>, <<"M","o","n","t","h">>, <<"M","o","t","o","r"," ","C","y","c","l","e">>, <<"E","-","R","i","c","k","s","h","a","w"," ","(","E","V",")">> >> }

MonthlyRows ==
    { << Num(2023), Str(<<"J","a","n">>), Num(10), Num(5) >>,
      << Num(2023), Str(<<"F","e","b">>), Str(<<"x">>), Num(7) >>,
      << Num(2022), Str(<<"D","e","c">>), Null, Num(3) >>,
      << Num(2023), Str(<<"F","o","o">>), Num(1), Num(2) >>,
      << Num(2023), Null, Num(4), Num(4) >> }

SeqsUpTo(S, n) == UNION {[1..k -> S] : k \in 0..n}

YearlyFiles == {[columns |-> h, rows |-> r] : h \in HeaderRows, r \in SeqsUpTo(YearlyRows, MaxRows)}
MonthlyFiles ==
    {[columns |-> h, rows |-> r] : h \in MonthlyHeaders, r \in SeqsUpTo(MonthlyRows, MaxRows)}

NotLoaded == [status |-> "pending"]

InitLoad ==
    /\ ev_only \in BOOLEAN
    /\ monthly \in BOOLEAN
    /\ csv \in IF monthly THEN MonthlyFiles ELSE YearlyFiles
    /\ loaded = NotLoaded
    /\ OthersIdle({"load"})

LoadData ==
    /\ loaded = NotLoaded
    /\ loaded' = load_data(csv, ev_only, monthly)
    /\ UNCHANGED <<pureVars, ev_only, monthly, csv, appVars>>

NextLoad == LoadData

SpecLoad == InitLoad /\ [][NextLoad]_vars

RECURSIVE SumOver(_, _)
SumOver(S, f) ==
    IF S = {} THEN 0
    ELSE LET x == CHOOSE y \in S : TRUE IN f[x] + SumOver(S \ {x}, f)

\* the registrations of the frame returned, summed
LoadedTotal ==
    LET iReg == ColIdx(loaded.columns, <<"r","e","g","i","s","t","r","a","t","i","o","n","s">>)
    IN  SumOver(1..Len(loaded.rows), [i \in 1..Len(loaded.rows) |-> loaded.rows[i][iReg].n])

\* the number a raw cell holds, zero when it holds none
RawNumber(c) ==
    IF c.t = "num" THEN c.n
    ELSE IF c.t = "str" /\ AllDigits(c.s) THEN ParseNat(c.s)
    ELSE 0

\* the positions of the file's columns whose header canonicalizes to name
ColumnsNamed(name) == {i \in 1..Len(csv.columns) : CanonOne(csv.columns[i]) = name}

HasRequired == \A name \in RequiredMin : ColumnsNamed(name) # {}

IsYearCell(c) == (c.t = "num" /\ c.n \in 1000..9999) \/ (c.t = "str" /\ Len(c.s) = 4 /\ AllDigits(c.s))
IsMonthCell(c) == c.t = "str" /\ StrLower(c.s) \in DOMAIN MonthAbbr

\* what the round trip promises of a yearly file: the first registrations column,
\* summed over the rows whose date parses and whose category is not null
YearlyExpectedTotal ==
    LET iDate == SetMin(ColumnsNamed(<<"d","a","t","e">>))
        iCat == SetMin(ColumnsNamed(<<"c","a","t","e","g","o","r","y">>))
        iReg == SetMin(ColumnsNamed(<<"r","e","g","i","s","t","r","a","t","i","o","n","s">>))
        rows == {i \in 1..Len(csv.rows) : IsYearCell(csv.rows[i][iDate]) /\ csv.rows[i][iCat].t # "null"}
    IN  SumOver(rows, [i \in rows |-> RawNumber(csv.rows[i][iReg])])

\* the category columns of a monthly file
CategoryColumns == {i \in 1..Len(csv.columns) : csv.columns[i] \notin { <<"Y","e","a","r">>, <<"M","o","n","t","h">> }}

\* what the round trip promises of a monthly file: every cell of every category
\* column, summed over the rows whose date is not unparseable (a row of an
\* unparseable Month is dropped; no row is dropped for anything else)
MonthlyExpectedTotal ==
    LET iMonth == ColIdx(csv.columns, <<"M","o","n","t","h">>)
        rows == {i \in 1..Len(csv.rows) : csv.rows[i][iMonth].t = "null" \/ IsMonthCell(csv.rows[i][iMonth])}
        cells == rows \X CategoryColumns
    IN  SumOver(cells, [x \in cells |-> RawNumber(csv.rows[x[1]][x[2]])])

\* C6: with the EV-only flag off, for any source (of the documented columns), the
\* registrations of the rows load_data returns sum to the raw numeric values of the
\* source, non-numeric cells as zero, less only the rows dropped for a null or
\* unparseable date or a null category: no other record is lost or counted twice.
C6_RoundTrip ==
    (loaded.status \notin {"pending", "idle"} /\ ~ev_only /\ (monthly \/ HasRequired)) =>
        /\ loaded.status = "ok"
        /\ LoadedTotal = IF monthly THEN MonthlyExpectedTotal ELSE YearlyExpectedTotal

\* the long-form rows of the frame returned, as <<date, category, registrations>>
LoadedTriples ==
    [i \in 1..Len(loaded.rows) |->
        << loaded.rows[i][ColIdx(loaded.columns, <<"d","a","t","e">>)],
           loaded.rows[i][ColIdx(loaded.columns, <<"c","a","t","e","g","o","r","y">>)],
           loaded.rows[i][ColIdx(loaded.columns, <<"r","e","g","i","s","t","r","a","t","i","o","n","s">>)] >>]

\* the row the reshape owes to the wide row i and the category column c
OwedTriple(i, c) ==
    LET row == csv.rows[i]
    IN  << Date(row[ColIdx(csv.columns, <<"Y","e","a","r">>)].n,
                MonthAbbr[StrLower(row[ColIdx(csv.columns, <<"M","o","n","t","h">>)].s)]),
           Str(csv.columns[c]),
           Num(RawNumber(row[c])) >>

\* every wide row has a year and a three-letter month
WideRowsDated ==
    \A i \in 1..Len(csv.rows) :
        /\ IsYearCell(csv.rows[i][ColIdx(csv.columns, <<"Y","e","a","r">>)])
        /\ IsMonthCell(csv.rows[i][ColIdx(csv.columns, <<"M","o","n","t","h">>)])

JanuaryExample ==
    [columns |-> << <<"Y","e","a","r">>, <<"M","o","n","t","h">>, <<"2","W">>, <<"4","W">> >>,
     rows |-> << << Num(2023), Str(<<"J","a","n">>), Num(10), Num(5) >> >>]

\* C8: in monthly mode, for every wide row (with its Year and Month) and every
\* category column, exactly one long-form row is returned, dated the first day of
\* that month, with the column name as category and the cell (zero when not numeric)
\* as registrations, and no other row; Year=2023, Month=Jan, {2W:10, 4W:5} gives
\* exactly (2023-01-01, "2W", 10) and (2023-01-01, "4W", 5).
C8_Reshape ==
    (monthly /\ loaded.status # "pending" /\ WideRowsDated) =>
        /\ loaded.status = "ok"
        /\ LET owed == (1..Len(csv.rows)) \X CategoryColumns
               got == 1..Len(loaded.rows)
           IN  /\ \A x \in owed :
                     Cardinality({k \in got : LoadedTriples[k] = OwedTriple(x[1], x[2])})
                        = Cardinality({y \in owed : OwedTriple(y[1], y[2]) = OwedTriple(x[1], x[2])})
               /\ Cardinality(got) = Cardinality(owed)
        /\ csv = JanuaryExample =>
               /\ Len(loaded.rows) = 2
               /\ Range(LoadedTriples) = { << Date(2023, 1), Str(<<"2","W">>), Num(10) >>,
                                           << Date(2023, 1), Str(<<"4","W">>), Num(5) >> }

\* two dated wide rows, one with a non-numeric cell, were reshaped into four rows
C8_Witness ==
    /\ monthly /\ loaded.status = "ok" /\ WideRowsDated
    /\ Len(csv.rows) = 2 /\ Len(loaded.rows) = 4
    /\ \E i \in 1..2 : \E c \in CategoryColumns : csv.rows[i][c].t = "str"

\* C10: after load_data with the EV-only flag set, in yearly mode and in monthly
\* mode, every row returned has a category that contains "ELECTRIC" or "EV" (in any
\* letter case), and every source row of such a category (with a valid date and
\* category) is returned.
C10_EvOnly ==
    (loaded.status = "ok" /\ ev_only) =>
        LET iCat == ColIdx(loaded.columns, <<"c","a","t","e","g","o","r","y">>)
        IN  /\ \A k \in 1..Len(loaded.rows) : IsEV(loaded.rows[k][iCat].s)
            /\ Len(loaded.rows) =
                  IF monthly
                  THEN Cardinality({x \in (1..Len(csv.rows)) \X CategoryColumns : IsEV(csv.columns[x[2]])})
                  ELSE Cardinality({i \in 1..Len(csv.rows) :
                          /\ IsYearCell(csv.rows[i][SetMin(ColumnsNamed(<<"d","a","t","e">>))])
                          /\ csv.rows[i][SetMin(ColumnsNamed(<<"c","a","t","e","g","o","r","y">>))].t = "str"
                          /\ IsEV(csv.rows[i][SetMin(ColumnsNamed(<<"c","a","t","e","g","o","r","y">>))].s)})

(***************************************************************************)
(* app.py: one pass of the script, from the loads to the last element      *)
(* rendered.  A frame of the pass is a table [columns, rows]; an           *)
(* aggregate (the result of a groupby(...).sum()) is a function from its   *)
(* group keys to the summed registrations.  The contents of the charts     *)
(* are not kept: rendered lists the elements put on the page.              *)
(***************************************************************************)
NoError == [kind |-> "none", orig |-> <<>>, canonical |-> <<>>]
NoFrame == [columns |-> <<>>, rows |-> <<>>]

Cell(df, row, name) == row[ColIdx(df.columns, name)]
YearOf(c) == c.n \div 100
MonthOf(c) == c.n % 100

\* df['date'].dt.year of the rows whose date is not NaT
Years(df) ==
    {YearOf(Cell(df, df.rows[i], <<"d","a","t","e">>)) :
        i \in {j \in 1..Len(df.rows) : Cell(df, df.rows[j], <<"d","a","t","e">>).t = "date"}}

\* df[mask]: the rows of the set kept, in their order
Where(df, kept) ==
    [columns |-> df.columns, rows |-> SelectSeq(df.rows, LAMBDA row : row \in kept)]

\* the characters in the order of their code points, for sorted()
CodeOrder ==
    <<"\t", " ", "%", "(", ")", "+", "-", ".", "/",
      "0", "1", "2", "3", "4", "5", "6", "7", "8", "9", "?",
      "A", "B", "C", "D", "E", "F", "G", "H", "I", "J", "K", "L", "M",
      "N", "O", "P", "Q", "R", "S", "T", "U", "V", "W", "X", "Y", "Z", "_",
      "a", "b", "c", "d", "e", "f", "g", "h", "i", "j", "k", "l", "m",
      "n", "o", "p", "q", "r", "s", "t", "u", "v", "w", "x", "y", "z">>
Ord(c) == CHOOSE i \in 1..Len(CodeOrder) : CodeOrder[i] = c

\* a < b for two texts
StrLess(a, b) ==
    \/ \E i \in 1..Len(a) :
          /\ i <= Len(b)
          /\ \A j \in 1..(i - 1) : a[j] = b[j]
          /\ Ord(a[i]) < Ord(b[i])
    \/ Len(a) < Len(b) /\ \A j \in 1..Len(a) : a[j] = b[j]

\* sorted(set of texts)
Sorted(S) ==
    [i \in 1..Cardinality(S) |->
        CHOOSE x \in S : Cardinality({y \in S : StrLess(y, x)}) = i - 1]

\* df[name].unique() of a text column
Unique(df, name) == {Cell(df, df.rows[i], name).s : i \in 1..Len(df.rows)}

\* df["vehicle_group"] = df["category"].map(mapper).fillna("Other")
WithGroup(df) ==
    [columns |-> Append(df.columns, <<"v","e","h","i","c","l","e","_","g","r","o","u","p">>),
     rows |-> [i \in 1..Len(df.rows) |->
                  Append(df.rows[i], Str(mapper(Cell(df, df.rows[i], <<"c","a","t","e","g","o","r","y">>))))]]

\* groupby(keys).sum() of the registrations of a frame: the rows of a NaT date
\* fall out of a pd.Grouper
Dated(df) == {row \in Range(df.rows) : Cell(df, row, <<"d","a","t","e">>).t = "date"}
GroupFrame(df, key) ==
    LET rows == {i \in 1..Len(df.rows) : df.rows[i] \in Dated(df)}
        regs == [i \in rows |-> Cell(df, df.rows[i], <<"r","e","g","i","s","t","r","a","t","i","o","n","s">>).n]
    IN  [k \in {key[df.rows[i]] : i \in rows} |->
            SumOver({i \in rows : key[df.rows[i]] = k}, regs)]

\* groupby(keys).sum() of an aggregate
Regroup(agg, key) ==
    [k \in {key[g] : g \in DOMAIN agg} |->
        SumOver({g \in DOMAIN agg : key[g] = k}, agg)]

NoMaker == <<>>
YearStart(n) == (n \div 100) * 100 + 1
QuarterEnd(n) == (n \div 100) * 100 + 3 * ((((n % 100) - 1) \div 3) + 1)

\* the series of one vehicle group (or maker) of an aggregate, by date
SeriesIn(agg, keys) ==
    LET dates == {g.date : g \in keys}
    IN  [i \in 1..Cardinality(dates) |->
            LET d == Nth(dates, i)
            IN  <<d, Num(agg[CHOOSE g \in keys : g.date = d])>>]

\* int(s.iloc[-1]) if len(s) > 0 else 0
LastOr0(sr) == IF Len(sr) > 0 THEN sr[Len(sr)][2].n ELSE 0

KpiColumns == 4
MakerChoices == 10

Min2(a, b) == IF b < a THEN b ELSE a
Max2(a, b) == IF b > a THEN b ELSE a
Head10(sq) == SubSeq(sq, 1, Min2(MakerChoices, Len(sq)))

----------------------------------------------------------------------------
\* lines 18-19: df_yearly = load_data(ev_only=show_ev_only, monthly=False)
AppLoadYearly ==
    /\ pc = "start"
    /\ \E r \in {load_data(yearly_csv, show_ev_only, FALSE)} :
           IF r.status = "ok"
           THEN /\ df_yearly' = [columns |-> r.columns, rows |-> r.rows]
                /\ has_maker' = r.has_maker
                /\ pc' = "yearly_loaded"
                /\ UNCHANGED error
           ELSE /\ error' = [kind |-> r.status, orig |-> r.orig, canonical |-> r.canonical]
                /\ pc' = "error"
                /\ UNCHANGED <<df_yearly, has_maker>>
    /\ UNCHANGED <<pureVars, loadVars, show_ev_only, yearly_csv, monthly_csv, df_monthly,
                   year_range, cat_options, maker_options, selected, aggs, kpis,
                   maker_table, rendered>>

\* line 22: df_monthly = load_data(ev_only=show_ev_only, monthly=True)
AppLoadMonthly ==
    /\ pc = "yearly_loaded"
    /\ \E r \in {load_data(monthly_csv, show_ev_only, TRUE)} :
           IF r.status = "ok"
           THEN /\ df_monthly' = [columns |-> r.columns, rows |-> r.rows]
                /\ pc' = "loaded"
                /\ UNCHANGED error
           ELSE /\ error' = [kind |-> r.status, orig |-> r.orig, canonical |-> r.canonical]
                /\ pc' = "error"
                /\ UNCHANGED df_monthly
    /\ UNCHANGED <<pureVars, loadVars, show_ev_only, yearly_csv, monthly_csv, df_yearly,
                   has_maker, year_range, cat_options, maker_options, selected, aggs, kpis,
                   maker_table, rendered>>

\* lines 25-40: the year slider and the filter by year.  min() and max() of an
\* empty column are NaN; Python's min(a, b) and max(a, b) give a unless b compares
\* below (above) it, so a NaN of the yearly frame is kept and a NaN of the monthly
\* frame is passed over; a NaN bound makes st.slider (and pd.to_datetime of
\* "nan-01-01") raise.
YearRange ==
    /\ pc = "loaded"
    /\ LET ys == Years(df_yearly)
           ms == Years(df_monthly)
       IN  IF ys = {}
           THEN /\ error' = [kind |-> "NaNYear", orig |-> <<>>, canonical |-> <<>>]
                /\ pc' = "error"
                /\ UNCHANGED <<df_yearly, df_monthly, year_range>>
           ELSE LET min_year == IF ms = {} THEN SetMin(ys) ELSE Min2(SetMin(ys), SetMin(ms))
                    max_year == IF ms = {} THEN SetMax(ys) ELSE Max2(SetMax(ys), SetMax(ms))
                IN  \E start_year \in min_year..max_year :
                    \E end_year \in start_year..max_year :
                       LET InRangeY(row) ==
                               /\ Cell(df_yearly, row, <<"d","a","t","e">>).t = "date"
                               /\ Cell(df_yearly, row, <<"d","a","t","e">>).n >= start_year * 100 + 1
                               /\ Cell(df_yearly, row, <<"d","a","t","e">>).n <= end_year * 100 + 12
                           InRangeM(row) ==
                               /\ Cell(df_monthly, row, <<"d","a","t","e">>).t = "date"
                               /\ Cell(df_monthly, row, <<"d","a","t","e">>).n >= start_year * 100 + 1
                               /\ Cell(df_monthly, row, <<"d","a","t","e">>).n <= end_year * 100 + 12
                       IN  /\ year_range' = <<start_year, end_year>>
                           /\ df_yearly' = Where(df_yearly, {row \in Range(df_yearly.rows) : InRangeY(row)})
                           /\ df_monthly' = Where(df_monthly, {row \in Range(df_monthly.rows) : InRangeM(row)})
                           /\ pc' = "ranged"
                           /\ UNCHANGED error
    /\ UNCHANGED <<pureVars, loadVars, show_ev_only, yearly_csv, monthly_csv, has_maker,
                   cat_options, maker_options, selected, aggs, kpis, maker_table, rendered>>

\* lines 43-51: the vehicle groups and the options of the two multiselects
PrepareGroups ==
    /\ pc = "ranged"
    /\ df_yearly' = WithGroup(df_yearly)
    /\ df_monthly' = WithGroup(df_monthly)
    /\ cat_options' = Sorted(Unique(WithGroup(df_monthly), <<"v","e","h","i","c","l","e","_","g","r","o","u","p">>))
    /\ maker_options' = IF has_maker THEN Sorted(Unique(df_yearly, <<"m","a","k","e","r">>)) ELSE <<>>
    /\ pc' = "grouped"
    /\ UNCHANGED <<pureVars, loadVars, show_ev_only, yearly_csv, monthly_csv, has_maker,
                   year_range, selected, aggs, kpis, maker_table, rendered, error>>

\* lines 54-60 and filter_controls: what the user selects, and the filters by it
FilterControls ==
    /\ pc = "grouped"
    /\ \E cats \in SUBSET Range(cat_options) :
       \E makers \in (IF has_maker THEN SUBSET Range(Head10(maker_options)) ELSE {{}}) :
          LET InCats(row) == Cell(df_yearly, row, <<"v","e","h","i","c","l","e","_","g","r","o","u","p">>).s \in cats
              InCatsM(row) == Cell(df_monthly, row, <<"v","e","h","i","c","l","e","_","g","r","o","u","p">>).s \in cats
              byCat == IF cats # {} THEN Where(df_yearly, {row \in Range(df_yearly.rows) : InCats(row)}) ELSE df_yearly
              InMakers(row) == Cell(byCat, row, <<"m","a","k","e","r">>).s \in makers
          IN  /\ selected' = [cats |-> cats, makers |-> makers]
              /\ df_yearly' = IF has_maker /\ makers # {} THEN Where(byCat, {row \in Range(byCat.rows) : InMakers(row)}) ELSE byCat
              /\ df_monthly' = IF cats # {} THEN Where(df_monthly, {row \in Range(df_monthly.rows) : InCatsM(row)}) ELSE df_monthly
    /\ rendered' = IF has_maker THEN rendered ELSE Append(rendered, "info_no_maker")
    /\ pc' = "filtered"
    /\ UNCHANGED <<pureVars, loadVars, show_ev_only, yearly_csv, monthly_csv, has_maker,
                   year_range, cat_options, maker_options, aggs, kpis, maker_table, error>>

\* lines 62-64: the empty state
EmptyCheck ==
    /\ pc = "filtered"
    /\ IF df_yearly.rows = <<>> /\ df_monthly.rows = <<>>
       THEN rendered' = Append(rendered, "warning_no_data") /\ pc' = "stopped"
       ELSE rendered' = rendered /\ pc' = "checked"
    /\ UNCHANGED <<pureVars, loadVars, show_ev_only, yearly_csv, monthly_csv, df_yearly,
                   df_monthly, has_maker, year_range, cat_options, maker_options, selected,
                   aggs, kpis, maker_table, error>>

\* lines 67-76: the four aggregations
Aggregate ==
    /\ pc = "checked"
    /\ LET YKey(row) ==
               [date |-> YearStart(Cell(df_yearly, row, <<"d","a","t","e">>).n),
                vehicle_group |-> Cell(df_yearly, row, <<"v","e","h","i","c","l","e","_","g","r","o","u","p">>).s,
                maker |-> IF has_maker THEN Cell(df_yearly, row, <<"m","a","k","e","r">>).s ELSE NoMaker]
           MKey(row) ==
               [date |-> Cell(df_monthly, row, <<"d","a","t","e">>).n,
                vehicle_group |-> Cell(df_monthly, row, <<"v","e","h","i","c","l","e","_","g","r","o","u","p">>).s]
           QKey(g) == [date |-> QuarterEnd(g.date), vehicle_group |-> g.vehicle_group]
           TKey(g) == [date |-> YearStart(g.date), vehicle_group |-> g.vehicle_group]
           yearly_agg == GroupFrame(df_yearly, [row \in Dated(df_yearly) |-> YKey(row)])
           monthly_agg == GroupFrame(df_monthly, [row \in Dated(df_monthly) |-> MKey(row)])
       IN  aggs' = [yearly_agg |-> yearly_agg, monthly_agg |-> monthly_agg,
                    topline_q |-> Regroup(monthly_agg, [g \in DOMAIN monthly_agg |-> QKey(g)]),
                    topline_y |-> Regroup(yearly_agg, [g \in DOMAIN yearly_agg |-> TKey(g)])]
    /\ pc' = "aggregated"
    /\ UNCHANGED <<pureVars, loadVars, show_ev_only, yearly_csv, monthly_csv, df_yearly,
                   df_monthly, has_maker, year_range, cat_options, maker_options, selected,
                   kpis, maker_table, rendered, error>>

\* the st.metric pairs of one vehicle group: every pair the rounding allows
KpiOf(vg) ==
    LET qdf == SeriesIn(aggs.topline_q, {g \in DOMAIN aggs.topline_q : g.vehicle_group = vg})
        ydf == SeriesIn(aggs.topline_y, {g \in DOMAIN aggs.topline_y : g.vehicle_group = vg})
    IN  { [q_value |-> LastOr0(qdf), q_delta |-> qd, y_value |-> LastOr0(ydf), y_delta |-> yd]
            : qd \in kpi_delta(compute_growth_rates(qdf)),
              yd \in kpi_delta(compute_growth_rates(ydf)) }

\* lines 79-95: the KPI columns of the first ncols vehicle groups
RenderKPIs ==
    /\ pc = "aggregated"
    /\ LET ncols == Max2(1, Min2(KpiColumns, Len(cat_options)))
           first == SubSeq(cat_options, 1, Min2(ncols, Len(cat_options)))
       IN  \E k \in [Range(first) -> UNION {KpiOf(vg) : vg \in Range(first)}] :
              /\ \A vg \in Range(first) : k[vg] \in KpiOf(vg)
              /\ kpis' = k
    /\ rendered' = Append(rendered, "kpis")
    /\ pc' = "kpis"
    /\ UNCHANGED <<pureVars, loadVars, show_ev_only, yearly_csv, monthly_csv, df_yearly,
                   df_monthly, has_maker, year_range, cat_options, maker_options, selected,
                   aggs, maker_table, error>>

\* lines 97-100: the monthly trend chart
RenderTrends ==
    /\ pc = "kpis"
    /\ rendered' = Append(rendered, "trend_monthly")
    /\ pc' = "trends"
    /\ UNCHANGED <<pureVars, loadVars, show_ev_only, yearly_csv, monthly_csv, df_yearly,
                   df_monthly, has_maker, year_range, cat_options, maker_options, selected,
                   aggs, kpis, maker_table, error>>

\* the rows table_with_growth may give for one maker
GrowthRowOf(my, m) ==
    LET sr == SeriesIn(my, {h \in DOMAIN my : h.maker = m})
        g == compute_growth_rates(sr)
    IN  { [Maker |-> m, change |-> c, latest |-> LastOr0(sr)]
            : c \in IF g = None THEN {[none |-> TRUE, tenths |-> 0]}
                    ELSE {[none |-> FALSE, tenths |-> t] : t \in RoundedTenths(g)} }

\* lines 102-132: the manufacturer chart and growth table, or the warning that there
\* is no manufacturer column.  With no row in the yearly aggregate the list the
\* table is built from is empty, and DataFrame([]).sort_values(by=...) raises.
RenderMakers ==
    /\ pc = "trends"
    /\ IF ~has_maker
       THEN /\ rendered' = Append(rendered, "warning_no_maker")
            /\ pc' = "done"
            /\ UNCHANGED <<maker_table, error>>
       ELSE LET MKey(g) == [date |-> YearStart(g.date), maker |-> g.maker]
                my == Regroup(aggs.yearly_agg, [g \in DOMAIN aggs.yearly_agg |-> MKey(g)])
                makers == {g.maker : g \in DOMAIN my}
            IN  IF makers = {}
                THEN /\ rendered' = Append(rendered, "trend_makers")
                     /\ error' = [kind |-> "KeyError", orig |-> <<>>, canonical |-> <<>>]
                     /\ pc' = "error"
                     /\ UNCHANGED maker_table
                ELSE /\ \E tbl \in SUBSET UNION {GrowthRowOf(my, m) : m \in makers} :
                          /\ \A m \in makers :
                                Cardinality({r \in tbl : r.Maker = m}) = 1
                          /\ \A r \in tbl : r \in GrowthRowOf(my, r.Maker)
                          /\ maker_table' = tbl
                     /\ rendered' = rendered \o <<"trend_makers", "growth_table">>
                     /\ pc' = "done"
                     /\ UNCHANGED error
    /\ UNCHANGED <<pureVars, loadVars, show_ev_only, yearly_csv, monthly_csv, df_yearly,
                   df_monthly, has_maker, year_range, cat_options, maker_options, selected,
                   aggs, kpis>>

(***************************************************************************)
(* The files of a pass.                                                    *)
(***************************************************************************)
AppYearlyRows ==
    { << >>,
      << << Num(2022), Str(<<"H","e","r","o">>), Str(<<"M","o","t","o","r"," ","C","y","c","l","e">>), Num(1000) >> >>,
      << << Num(2021), Str(<<"H","e","r","o">>), Str(<<"M","o","t","o","r"," ","C","y","c","l","e">>), Num(800) >>,
         << Num(2022), Str(<<"H","e","r","o">>), Str(<<"M","o","t","o","r"," ","C","y","c","l","e">>), Num(1000) >> >>,
      << << Num(2022), Str(<<"H","e","r","o">>), Str(<<"M","o","t","o","r"," ","C","y","c","l","e">>), Num(1000) >>,
         << Num(2022), Str(<<" ","T","a","t","a"," ">>), Str(<<"E","l","e","c","t","r","i","c"," ","C","a","r">>), Num(8) >>,
         << Num(2023), Str(<<"T","a","t","a">>), Str(<<"E","l","e","c","t","r","i","c"," ","C","a","r">>), Num(5) >> >>,
      << << Num(2021), Str(<<"H","e","r","o">>), Str(<<"M","o","t","o","r"," ","C","y","c","l","e">>), Num(800) >>,
         << Num(2023), Str(<<"T","a","t","a">>), Str(<<"E","l","e","c","t","r","i","c"," ","C","a","r">>), Num(5) >> >>,
      << << Str(<<"n",".","d",".">>), Str(<<"H","e","r","o">>), Str(<<"B","u","s">>), Num(7) >> >> }

AppYearlyHeaders ==
    { <<<<"Y","e","a","r">>, <<"T","y","p","e">>, <<"V","e","h","_","C","a","t","e","g","o","r","y">>, <<"C","o","u","n","t">>>>,
      <<<<"D","a","t","e">>, <<"T","y","p","e">>, <<"V","e","h","_","C","a","t","e","g","o","r","y">>, <<"C","o","u","n","t">>>>,
      <<<<" ","D","A","T","E"," ">>, <<"M","a","k","e","-","N","a","m","e">>, <<"V","e","h","i","c","l","e","_","C","a","t","e","g","o","r","y">>, <<"N","o","_","O","f","_","V","e","h","i","c","l","e","s"," ","(","N","o","s",".",")">>>>,
      <<<<"D","a","t","e">>, <<"C","o","m","p","a","n","y">>, <<"C","a","t","e","g","o","r","y">>, <<"T","o","t","a","l"," ","V","e","h","i","c","l","e","s">>>>,
      <<<<"D","a","t","e">>, <<"T","y","p","e">>, <<"M","a","k","e","r">>, <<"C","o","u","n","t">>>> }

AppYearlyFiles == {[columns |-> h, rows |-> r] : h \in AppYearlyHeaders, r \in AppYearlyRows}

AppMonthlyFiles ==
    { [columns |-> << <<"Y","e","a","r">>, <<"M","o","n","t","h">>, <<"2","W">>, <<"4","W">> >>,
       rows |-> << << Num(2023), Str(<<"J","a","n">>), Num(10), Num(5) >> >>],
      [columns |-> << <<"Y","e","a","r">>, <<"M","o","n","t","h">>, <<"2","W">>, <<"4","W">> >>,
       rows |-> << << Num(2022), Str(<<"D","e","c">>), Num(8), Num(4) >>,
                   << Num(2023), Str(<<"J","a","n">>), Num(10), Num(5) >> >>],
      [columns |-> << <<"Y","e","a","r">>, <<"M","o","n","t","h">>, <<"M","o","t","o","r"," ","C","y","c","l","e">>, <<"E","-","R","i","c","k","s","h","a","w"," ","(","E","V",")">> >>,
       rows |-> << << Num(2021), Str(<<"N","o","v">>), Num(3), Str(<<"x">>) >>,
                   << Num(2023), Null, Num(4), Num(4) >>,
                   << Num(2023), Str(<<"J","a","n">>), Num(6), Num(2) >> >>],
      [columns |-> << <<"Y","e","a","r">>, <<"M","o","n","t","h">>, <<"2","W">>, <<"4","W">> >>,
       rows |-> << << Num(2023), Str(<<"F","o","o">>), Num(1), Num(2) >> >>] }

Init ==
    /\ show_ev_only \in BOOLEAN
    /\ yearly_csv \in AppYearlyFiles
    /\ monthly_csv \in AppMonthlyFiles
    /\ pc = "start"
    /\ df_yearly = NoFrame
    /\ df_monthly = NoFrame
    /\ has_maker = FALSE
    /\ year_range = <<0, 0>>
    /\ cat_options = <<>>
    /\ maker_options = <<>>
    /\ selected = [cats |-> {}, makers |-> {}]
    /\ aggs = <<>>
    /\ kpis = <<>>
    /\ maker_table = {}
    /\ rendered = <<>>
    /\ error = NoError
    /\ OthersIdle({"app"})

Next ==
    \/ AppLoadYearly
    \/ AppLoadMonthly
    \/ YearRange
    \/ PrepareGroups
    \/ FilterControls
    \/ EmptyCheck
    \/ Aggregate
    \/ RenderKPIs
    \/ RenderTrends
    \/ RenderMakers

Spec == Init /\ [][Next]_vars

\* the yearly file of the end-to-end scenario, under the header row h
EndToEnd(h) ==
    [columns |-> h,
     rows |-> << << Num(2022), Str(<<"H","e","r","o">>), Str(<<"M","o","t","o","r"," ","C","y","c","l","e">>), Num(1000) >> >>]
YearHeaders == <<<<"Y","e","a","r">>, <<"T","y","p","e">>, <<"V","e","h","_","C","a","t","e","g","o","r","y">>, <<"C","o","u","n","t">>>>
DateHeaders == <<<<"D","a","t","e">>, <<"T","y","p","e">>, <<"V","e","h","_","C","a","t","e","g","o","r","y">>, <<"C","o","u","n","t">>>>

\* the filters of the pass keep a 2022 record of group 2W and maker Hero
KeepsHero2W ==
    /\ year_range[1] <= 2022 /\ 2022 <= year_range[2]
    /\ selected.cats = {} \/ <<"2","W">> \in selected.cats
    /\ selected.makers = {} \/ <<"H","e","r","o">> \in selected.makers

\* the scenario's outcome: loaded without error as the one record, classified 2W,
\* and 1000 in the yearly aggregate of (2022, "2W")
EndToEndOutcome ==
    /\ pc # "start" =>
          /\ ~(pc = "error" /\ error.kind = "ValueError")
          /\ has_maker
    /\ pc \in {"yearly_loaded", "loaded"} =>
          /\ df_yearly.columns = << <<"d","a","t","e">>, <<"m","a","k","e","r">>, <<"c","a","t","e","g","o","r","y">>, <<"r","e","g","i","s","t","r","a","t","i","o","n","s">> >>
          /\ df_yearly.rows = << << Date(2022, 1), Str(<<"H","e","r","o">>), Str(<<"M","o","t","o","r"," ","C","y","c","l","e">>), Num(1000) >> >>
    /\ (pc = "grouped" /\ year_range[1] <= 2022 /\ 2022 <= year_range[2]) =>
          /\ Len(df_yearly.rows) = 1
          /\ Cell(df_yearly, df_yearly.rows[1], <<"v","e","h","i","c","l","e","_","g","r","o","u","p">>) = Str(<<"2","W">>)
    /\ (pc \in {"aggregated", "kpis", "trends", "done"} /\ KeepsHero2W) =>
          /\ [date |-> 202201, vehicle_group |-> <<"2","W">>] \in DOMAIN aggs.topline_y
          /\ aggs.topline_y[[date |-> 202201, vehicle_group |-> <<"2","W">>]] = 1000
          /\ aggs.yearly_agg[[date |-> 202201, vehicle_group |-> <<"2","W">>, maker |-> <<"H","e","r","o">>]] = 1000

\* C1 as stated: the yearly file with the headers Year, Type, Veh_Category, Count and
\* the row (2022, Hero, Motor Cycle, 1000) loads without error as the record
\* (2022-01-01, Hero, Motor Cycle, 1000), is classified 2W and gives 1000 for
\* (2022, 2W) in the yearly aggregate.
C1_AsStated == (yearly_csv = EndToEnd(YearHeaders) /\ ~show_ev_only) => EndToEndOutcome

\* C1 amended: with the EV-only toggle off, that outcome is the one of the file whose
\* first header is Date (the aggregate in a pass whose year range and selections keep
\* the record); under the header Year, which is no synonym of date, load_data raises
\* the schema error and the pass ends there.
C1_EndToEnd ==
    /\ (yearly_csv = EndToEnd(DateHeaders) /\ ~show_ev_only) => EndToEndOutcome
    /\ (yearly_csv = EndToEnd(YearHeaders) /\ pc # "start") =>
          /\ pc = "error" /\ error.kind = "ValueError"
          /\ error.orig = YearHeaders
          /\ error.canonical = << <<"y","e","a","r">>, <<"m","a","k","e","r">>, <<"c","a","t","e","g","o","r","y">>, <<"r","e","g","i","s","t","r","a","t","i","o","n","s">> >>

\* the Date-headed scenario reached the aggregations with the record kept
C1_Witness ==
    /\ yearly_csv = EndToEnd(DateHeaders) /\ ~show_ev_only
    /\ pc = "aggregated" /\ KeepsHero2W
    /\ selected.cats # {}
    /\ aggs.topline_y[[date |-> 202201, vehicle_group |-> <<"2","W">>]] = 1000

\* the canonical names of the yearly file's headers
YearlyCanonical == {CanonOne(yearly_csv.columns[i]) : i \in 1..Len(yearly_csv.columns)}
MissingRequired == \E name \in RequiredMin : name \notin YearlyCanonical

\* C7: in yearly mode, whenever one of date, category, registrations is absent after
\* canonicalization and duplicate removal, load_data fails with an error naming the
\* original and the canonicalized headers, returns no table, and the pass does not
\* go on to filter, aggregate or render.
C7_SchemaError ==
    (pc # "start" /\ MissingRequired) =>
        /\ pc = "error"
        /\ error.kind = "ValueError"
        /\ error.orig = yearly_csv.columns
        /\ Range(error.canonical) = YearlyCanonical
        /\ \A i, j \in 1..Len(error.canonical) :
              error.canonical[i] = error.canonical[j] => i = j
        /\ df_yearly = NoFrame /\ df_monthly = NoFrame
        /\ year_range = <<0, 0>> /\ cat_options = <<>> /\ maker_options = <<>>
        /\ aggs = <<>> /\ kpis = <<>> /\ maker_table = {} /\ rendered = <<>>

\* a file with rows whose registrations header is not recognised ended the pass
C7_Witness ==
    /\ pc = "error" /\ error.kind = "ValueError"
    /\ yearly_csv.rows # <<>>
    /\ <<"t","o","t","a","l"," ","v","e","h","i","c","l","e","s">> \in Range(error.canonical)
    /\ <<"T","o","t","a","l"," ","V","e","h","i","c","l","e","s">> \in Range(error.orig)

\* the EV-only toggle is on and no category of either source names an electric vehicle
NoElectricCategory ==
    /\ \A i \in 1..Len(yearly_csv.rows) :
          \A c \in 1..Len(yearly_csv.columns) :
             CanonOne(yearly_csv.columns[c]) = <<"c","a","t","e","g","o","r","y">> =>
                ~(yearly_csv.rows[i][c].t = "str" /\ IsEV(yearly_csv.rows[i][c].s))
    /\ \A c \in 1..Len(monthly_csv.columns) :
          monthly_csv.columns[c] \in { <<"Y","e","a","r">>, <<"M","o","n","t","h">> } \/ ~IsEV(monthly_csv.columns[c])

\* the filters have eliminated all rows: the frames are empty after the filters, or
\* the EV-only toggle alone leaves no row of either source
AllRowsEliminated ==
    \/ /\ pc \in {"filtered", "stopped", "checked", "aggregated", "kpis", "trends", "done"}
       /\ df_yearly.rows = <<>> /\ df_monthly.rows = <<>>
    \/ /\ show_ev_only /\ NoElectricCategory
       /\ yearly_csv.rows # <<>> /\ monthly_csv.rows # <<>>

\* C9: in a pass (whose loads succeed) where the date-range, category, maker and
\* EV-only filters eliminate all rows, no error is raised at any step, the
\* empty-state message is shown, and no aggregation or rendering step runs.
C9_EmptyState ==
    (AllRowsEliminated /\ pc \notin {"start", "yearly_loaded", "loaded", "ranged", "grouped", "filtered"}
        /\ ~(pc = "error" /\ error.kind \in {"ValueError", "ParseError"})) =>
        /\ pc = "stopped"
        /\ error = NoError
        /\ rendered = <<"warning_no_data">> \/ rendered = <<"info_no_maker", "warning_no_data">>
        /\ aggs = <<>> /\ kpis = <<>> /\ maker_table = {}

\* what the code keeps of C9: a pass that reaches the check with both frames empty
C9_AtTheCheck ==
    (pc \notin {"start", "yearly_loaded", "loaded", "ranged", "grouped", "filtered", "error"}
        /\ df_yearly.rows = <<>> /\ df_monthly.rows = <<>>) =>
        /\ pc = "stopped"
        /\ aggs = <<>> /\ kpis = <<>> /\ maker_table = {}

====
